---- MODULE Spec2Model ----
(***************************************************************************)
(* nfa2dfa.py: subset construction of a DFA from an epsilon-NFA.           *)
(*                                                                         *)
(* main() builds the NFA from its description, calls nfa.to_dfa() and      *)
(* prints the DFA.  The model follows to_dfa statement by statement: the   *)
(* null_closure worklist loop, the `unmarked' worklist loop, the for loop  *)
(* over the alphabet, the final-state pass and __str__.                    *)
(*                                                                         *)
(* Python lists and tuples are sequences; a dict is a function whose       *)
(* DOMAIN is the dict's set of keys.  list(set) is modelled in ascending   *)
(* order, which is the order CPython gives for the small non-negative      *)
(* state numbers used here (hash(i) = i, no collisions).                   *)
(***************************************************************************)
EXTENDS Integers, Sequences, FiniteSets, TLC

\* ------------------------------------------------------------- bounds
\* NFA states are 0 .. NumStates-1.
NumStates == 3
\* The alphabet has at most MaxAlpha symbols.
MaxAlpha == 2
\* The NFA's transition relation has at most MaxEdges (state, symbol, state) edges.
MaxEdges == 3
\* Input words for language comparison have at most MaxWord symbols.
MaxWord == 3
\* add_transition on its own is called with the state names 1 .. MaxNames,
\* at most MaxCalls times.
MaxNames == 2
MaxCalls == 3

\* ---------------------------------------------------------- constants
NULL == "E"
DfaInitialState == 1

States == 0 .. (NumStates - 1)
SymbolNames == <<"a", "b", "c", "d">>

\* ------------------------------------------------------ python helpers
Range(s) == {s[i] : i \in DOMAIN s}

EmptyDict == <<>>

\* dict.get(key, default)
Get(d, key, default) == IF key \in DOMAIN d THEN d[key] ELSE default

Min(S) == CHOOSE m \in S : \A x \in S : m <= x

\* list(a_set)
RECURSIVE SetToList(_)
SetToList(S) ==
    IF S = {} THEN <<>>
    ELSE LET m == Min(S) IN <<m>> \o SetToList(S \ {m})

RemoveAt(s, i) == SubSeq(s, 1, i - 1) \o SubSeq(s, i + 1, Len(s))

\* the list handed back as it was built, unsorted
sorted_left_out(s) == s

\* sorted(a_list): ascending, repeated elements kept
RECURSIVE sorted(_)
sorted(s) ==
    IF s = <<>> THEN <<>>
    ELSE LET m == Min(Range(s))
             i == CHOOSE j \in DOMAIN s : s[j] = m
         IN <<m>> \o sorted(RemoveAt(s, i))

\* list.pop(): the element removed, and what is left of the list
PopLastItem(l) == l[Len(l)]

\* unchecked[-1] read in place of unchecked.pop(): nothing is removed
PopLastRest_nothing_removed(l) == l

PopLastRest(l) == SubSeq(l, 1, Len(l) - 1)

\* list.pop(0)
PopFirstItem(l) == Head(l)
PopFirstRest(l) == Tail(l)

\* -------------------------------------------------------------- state
VARIABLES
    initial_state,      \* self.initial_state of the NFA
    final_states,       \* self.final_states of the NFA
    transitions,        \* self.transitions of the NFA
    alphabet,           \* self.alphabet, shared by the NFA and the DFA
    dfa_transitions,    \* dfa.transitions
    dfa_final_states,   \* dfa.final_states
    dfa_states,         \* to_dfa: dict from tuple of NFA states to DFA state name
    unmarked,           \* to_dfa: queue of subsets still to expand
    start,              \* to_dfa: subset being expanded
    initial_state_name, \* to_dfa: DFA name of start
    marks,              \* the names printed by "Mark {}"
    symbol_index,       \* to_dfa: position of the for loop in self.alphabet
    moved,              \* to_dfa: move = self.move(start, symbol)
    states,             \* null_closure: its argument
    closure,            \* null_closure: closure
    unchecked,          \* null_closure: unchecked
    result,             \* null_closure: the value returned
    previous,           \* null_closure: states, closure and result of the call before
    lines,              \* __str__: lines
    pc,                 \* the statement about to run
    return_pc           \* where null_closure returns to

vars == <<initial_state, final_states, transitions, alphabet, dfa_transitions,
          dfa_final_states, dfa_states, unmarked, start, initial_state_name,
          marks, symbol_index, moved, states, closure, unchecked, result,
          previous, lines, pc, return_pc>>

nfa_vars == <<initial_state, final_states, transitions, alphabet>>
dfa_vars == <<dfa_transitions, dfa_final_states>>
loop_vars == <<dfa_states, unmarked, start, initial_state_name, marks,
               symbol_index, moved>>
closure_vars == <<states, closure, unchecked, result, previous>>

\* ------------------------------------------------------ the automaton
\* The transition dict read_from_file builds from a set of edges: a key for
\* every state that has an edge, a symbol key only for a non-empty
\* destination list.  A state without edges is no key (it has no line of
\* its own); move() reads both alike through dict.get.
EdgeDict(edges) ==
    [s \in {e[1] : e \in edges} |->
        [sym \in {e[2] : e \in {x \in edges : x[1] = s}} |->
            SetToList({e[3] : e \in {x \in edges : x[1] = s /\ x[2] = sym}})]]

\* The alphabets: the symbol columns of the description other than NULL,
\* each symbol named once.
Alphabets == {SubSeq(SymbolNames, 1, k) : k \in 0 .. MaxAlpha}

\* every set of at most MaxEdges edges over the alphabet alpha and NULL
EdgeSets(alpha) ==
    LET AllEdges == States \X (Range(alpha) \cup {NULL}) \X States
    IN UNION {{Range(f) : f \in [1 .. k -> AllEdges]} : k \in 0 .. MaxEdges}

\* move() returning from inside its loop: only the first state is looked at
move_first_only(trans, from_states, symbol) ==
    IF from_states = <<>> THEN <<>>
    ELSE SetToList(Range(Get(Get(trans, from_states[1], EmptyDict), symbol, <<>>)))

\* move() collecting into a list in place of a set: a destination reached
\* from two of the states is listed twice
RECURSIVE move_keeps_repeats(_, _, _)
move_keeps_repeats(trans, from_states, symbol) ==
    IF from_states = <<>> THEN <<>>
    ELSE Get(Get(trans, Head(from_states), EmptyDict), symbol, <<>>)
             \o move_keeps_repeats(trans, Tail(from_states), symbol)

\* move(states, symbol) on the automaton whose relation is trans
move(trans, from_states, symbol) ==
    SetToList(UNION {Range(Get(Get(trans, from_states[i], EmptyDict), symbol, <<>>)) :
                        i \in DOMAIN from_states})

\* self.transitions.setdefault(state, dict()) in place of .get(): every
\* state asked about becomes a key
move_relation_setdefault(trans, from_states, symbol) ==
    [s \in DOMAIN trans \cup Range(from_states) |-> Get(trans, s, EmptyDict)]

\* the relation after move(states, symbol): dict.get() with a default reads
\* the dicts and adds nothing to them
move_relation(trans, from_states, symbol) == trans

\* the loop without unchecked.append(transition): found states are never
\* looked at themselves
RECURSIVE ClosureFor_no_recheck(_, _, _)
ClosureFor_no_recheck(cl, un, null_transitions) ==
    IF null_transitions = <<>> THEN <<cl, un>>
    ELSE LET transition == Head(null_transitions)
         IN IF transition \notin Range(cl)
            THEN ClosureFor_no_recheck(Append(cl, transition), un,
                                       Tail(null_transitions))
            ELSE ClosureFor_no_recheck(cl, un, Tail(null_transitions))

\* The for loop of null_closure over null_transitions: <<closure, unchecked>>
RECURSIVE ClosureFor(_, _, _)
ClosureFor(cl, un, null_transitions) ==
    IF null_transitions = <<>> THEN <<cl, un>>
    ELSE LET transition == Head(null_transitions)
         IN IF transition \notin Range(cl)
            THEN ClosureFor(Append(cl, transition), Append(un, transition),
                            Tail(null_transitions))
            ELSE ClosureFor(cl, un, Tail(null_transitions))

\* add_transition without its last two lines: end is not made a key
add_transition_end_not_a_key(trans, from, symbol, end) ==
    IF from \notin DOMAIN trans
    THEN trans @@ (from :> (symbol :> <<end>>))
    ELSE IF symbol \notin DOMAIN trans[from]
    THEN [trans EXCEPT ![from] = @ @@ (symbol :> <<end>>)]
    ELSE [trans EXCEPT ![from][symbol] = Append(@, end)]

\* add_transition with start and end swapped in the body
add_transition_swapped(trans, from, symbol, end) ==
    LET added ==
            IF end \notin DOMAIN trans
            THEN trans @@ (end :> (symbol :> <<from>>))
            ELSE IF symbol \notin DOMAIN trans[end]
            THEN [trans EXCEPT ![end] = @ @@ (symbol :> <<from>>)]
            ELSE [trans EXCEPT ![end][symbol] = Append(@, from)]
    IN IF from \notin DOMAIN added THEN added @@ (from :> EmptyDict) ELSE added

\* add_transition(start, symbol, end) on the relation trans
add_transition(trans, from, symbol, end) ==
    LET added ==
            IF from \notin DOMAIN trans
            THEN trans @@ (from :> (symbol :> <<end>>))
            ELSE IF symbol \notin DOMAIN trans[from]
            THEN [trans EXCEPT ![from] = @ @@ (symbol :> <<end>>)]
            ELSE [trans EXCEPT ![from][symbol] = Append(@, end)]
    IN IF end \notin DOMAIN added THEN added @@ (end :> EmptyDict) ELSE added

\* --------------------------------------------------------------- Init
NoCall == [states |-> <<>>, closure |-> <<>>, result |-> <<>>]

Idle ==
    /\ dfa_transitions = EmptyDict
    /\ dfa_final_states = <<>>
    /\ dfa_states = EmptyDict
    /\ unmarked = <<>>
    /\ start = <<>>
    /\ initial_state_name = 0
    /\ marks = <<>>
    /\ symbol_index = 0
    /\ moved = <<>>
    /\ lines = <<>>

Init ==
    /\ alphabet \in Alphabets
    /\ \E edges \in EdgeSets(alphabet) : transitions = EdgeDict(edges)
    /\ initial_state \in States
    /\ final_states \in {SetToList(F) : F \in SUBSET States}
    /\ Idle
    /\ states = <<>>
    /\ closure = <<>>
    /\ unchecked = <<>>
    /\ result = <<>>
    /\ previous = NoCall
    /\ pc = "main"
    /\ return_pc = "main"

\* ------------------------------------------------------- null_closure
\* Entering null_closure(arg): closure = list(states), unchecked = list(states)
Call(arg, back) ==
    /\ states' = arg
    /\ closure' = arg
    /\ unchecked' = arg
    /\ previous' = [states |-> states, closure |-> closure, result |-> result]
    /\ UNCHANGED result
    /\ pc' = "null_closure"
    /\ return_pc' = back

\* One iteration of `while unchecked'
NullClosureLoop ==
    /\ pc = "null_closure"
    /\ unchecked # <<>>
    /\ LET state == PopLastItem(unchecked)
           null_transitions == move(transitions, <<state>>, NULL)
           after == ClosureFor(closure, PopLastRest(unchecked), null_transitions)
       IN /\ closure' = after[1]
          /\ unchecked' = after[2]
          /\ transitions' = move_relation(transitions, <<state>>, NULL)
    /\ UNCHANGED <<initial_state, final_states, alphabet, dfa_vars, loop_vars,
                   states, result, previous, lines, pc, return_pc>>

\* return sorted(closure)
NullClosureReturn ==
    /\ pc = "null_closure"
    /\ unchecked = <<>>
    /\ result' = sorted(closure)
    /\ pc' = return_pc
    /\ UNCHANGED <<nfa_vars, dfa_vars, loop_vars, states, closure, unchecked,
                   previous, lines, return_pc>>

\* ------------------------------------------------------------- to_dfa
\* dfa = FiniteAutomaton(1, dict(), [], self.alphabet);
\* self.null_closure([self.initial_state])
ToDfaBegin ==
    /\ pc = "main"
    /\ dfa_transitions' = EmptyDict
    /\ dfa_final_states' = <<>>
    /\ Call(<<initial_state>>, "to_dfa_init")
    /\ UNCHANGED <<nfa_vars, loop_vars, lines>>

\* dfa_states = {tuple(initial_state): 1}; unmarked = [initial_state]
ToDfaInit ==
    /\ pc = "to_dfa_init"
    /\ dfa_states' = (result :> 1)
    /\ unmarked' = <<result>>
    /\ pc' = "while"
    /\ UNCHANGED <<nfa_vars, dfa_vars, start, initial_state_name, marks,
                   symbol_index, moved, closure_vars, lines, return_pc>>

\* unmarked.pop() in place of unmarked.pop(0): the worklist as a stack
WhileMark_pop_last ==
    /\ pc = "while"
    /\ unmarked # <<>>
    /\ start' = PopLastItem(unmarked)
    /\ unmarked' = PopLastRest(unmarked)
    /\ initial_state_name' = dfa_states[PopLastItem(unmarked)]
    /\ marks' = Append(marks, dfa_states[PopLastItem(unmarked)])
    /\ symbol_index' = 1
    /\ pc' = "for"
    /\ UNCHANGED <<nfa_vars, dfa_vars, dfa_states, moved, closure_vars, lines,
                   return_pc>>

\* while(unmarked): start = unmarked.pop(0); print "Mark ..."
WhileMark ==
    /\ pc = "while"
    /\ unmarked # <<>>
    /\ start' = PopFirstItem(unmarked)
    /\ unmarked' = PopFirstRest(unmarked)
    /\ initial_state_name' = dfa_states[PopFirstItem(unmarked)]
    /\ marks' = Append(marks, dfa_states[PopFirstItem(unmarked)])
    /\ symbol_index' = 1
    /\ pc' = "for"
    /\ UNCHANGED <<nfa_vars, dfa_vars, dfa_states, moved, closure_vars, lines,
                   return_pc>>

\* the body of the for loop without the `if move:' test
ForSymbol_without_test ==
    /\ pc = "for"
    /\ symbol_index <= Len(alphabet)
    /\ LET mv == move(transitions, start, alphabet[symbol_index])
       IN /\ moved' = mv
          /\ Call(mv, "new_state")
          /\ UNCHANGED symbol_index
    /\ transitions' = move_relation(transitions, start, alphabet[symbol_index])
    /\ UNCHANGED <<initial_state, final_states, alphabet, dfa_vars, dfa_states,
                   unmarked, start, initial_state_name, marks, lines>>

\* for symbol in self.alphabet: move = self.move(start, symbol); if move: ...
ForSymbol ==
    /\ pc = "for"
    /\ symbol_index <= Len(alphabet)
    /\ LET mv == move(transitions, start, alphabet[symbol_index])
       IN /\ moved' = mv
          /\ IF mv # <<>>
             THEN /\ Call(mv, "new_state")
                  /\ UNCHANGED symbol_index
             ELSE /\ symbol_index' = symbol_index + 1
                  /\ UNCHANGED <<closure_vars, pc, return_pc>>
    /\ transitions' = move_relation(transitions, start, alphabet[symbol_index])
    /\ UNCHANGED <<initial_state, final_states, alphabet, dfa_vars, dfa_states,
                   unmarked, start, initial_state_name, marks, lines>>

\* len(dfa_states) without the + 1
NewStateName_from_zero(dstates, new_state) ==
    IF new_state \notin DOMAIN dstates
    THEN Cardinality(DOMAIN dstates)
    ELSE dstates[new_state]

\* if tuple(new_state) not in dfa_states: len(dfa_states) + 1
\* else: dfa_states[tuple(new_state)]
NewStateName(dstates, new_state) ==
    IF new_state \notin DOMAIN dstates
    THEN Cardinality(DOMAIN dstates) + 1
    ELSE dstates[new_state]

\* dfa_states[tuple(new_state)] = new_state_name, for a new subset only
RecordState(dstates, new_state) ==
    IF new_state \notin DOMAIN dstates
    THEN (new_state :> NewStateName(dstates, new_state)) @@ dstates
    ELSE dstates

\* the append moved out of the `if': a known subset is enqueued again
Enqueue_always(queue, dstates, new_state) == Append(queue, new_state)

\* unmarked.append(tuple(new_state)), for a new subset only
Enqueue(queue, dstates, new_state) ==
    IF new_state \notin DOMAIN dstates THEN Append(queue, new_state) ELSE queue

\* new_state = the closure returned: name it, record and enqueue it if it is
\* new, add the DFA transition
NewState ==
    /\ pc = "new_state"
    /\ dfa_states' = RecordState(dfa_states, result)
    /\ unmarked' = Enqueue(unmarked, dfa_states, result)
    /\ dfa_transitions' = add_transition(dfa_transitions, initial_state_name,
                                         alphabet[symbol_index],
                                         NewStateName(dfa_states, result))
    /\ symbol_index' = symbol_index + 1
    /\ pc' = "for"
    /\ UNCHANGED <<nfa_vars, dfa_final_states, start, initial_state_name, marks,
                   moved, closure_vars, lines, return_pc>>

\* the for loop is exhausted: print, back to the while test
ForDone ==
    /\ pc = "for"
    /\ symbol_index > Len(alphabet)
    /\ pc' = "while"
    /\ UNCHANGED <<nfa_vars, dfa_vars, loop_vars, closure_vars, lines, return_pc>>

\* the orders in which dfa_states.items() can hand out the final names
Orders(S) == {s \in [1 .. Cardinality(S) -> S] : Range(s) = S}

\* issubset in place of intersection
FinalNames_subset(dstates, finals) ==
    {dstates[state_set] : state_set \in
        {k \in DOMAIN dstates : Range(finals) \subseteq Range(k)}}

\* the names to_dfa appends to dfa.final_states
FinalNames(dstates, finals) ==
    {dstates[state_set] : state_set \in
        {k \in DOMAIN dstates : Range(finals) \cap Range(k) # {}}}

\* the while loop has ended: set final states, return dfa
SetFinalStates ==
    /\ pc = "while"
    /\ unmarked = <<>>
    /\ dfa_final_states' \in Orders(FinalNames(dfa_states, final_states))
    /\ pc' = "str"
    /\ UNCHANGED <<nfa_vars, dfa_transitions, loop_vars, closure_vars, lines,
                   return_pc>>

\* ------------------------------------------------------------ __str__
Rows(trans, alpha) ==
    [state_name \in 1 .. Cardinality(DOMAIN trans) |->
        <<state_name,
          [i \in 1 .. Len(alpha) |->
              Get(Get(trans, state_name, EmptyDict), alpha[i], <<>>)]>>]

Str(init, finals, trans, alpha) ==
    <<<<"Initial State", init>>, <<"Final States", finals>>, <<"State", alpha>>>>
        \o Rows(trans, alpha)

\* print dfa
PrintDfa ==
    /\ pc = "str"
    /\ lines' = Str(DfaInitialState, dfa_final_states, dfa_transitions, alphabet)
    /\ pc' = "done"
    /\ UNCHANGED <<nfa_vars, dfa_vars, loop_vars, closure_vars, return_pc>>

Next ==
    \/ ToDfaBegin
    \/ NullClosureLoop
    \/ NullClosureReturn
    \/ ToDfaInit
    \/ WhileMark
    \/ ForSymbol
    \/ NewState
    \/ ForDone
    \/ SetFinalStates
    \/ PrintDfa

Spec == Init /\ [][Next]_vars

\* The program is sequential and runs every statement it reaches.  The
\* NFA's final states are read once, after the loops, and decide no branch:
\* the runs are those of an NFA without final states.
InitFair ==
    /\ Init
    /\ final_states = <<>>

FairSpec == InitFair /\ [][Next]_vars /\ WF_vars(Next)

\* ------------------------------------------- null_closure on its own
\* The lists of distinct states, in every order: the arguments null_closure
\* is given are [self.initial_state] and the lists move() makes from a set.
StateLists ==
    UNION {{l \in [1 .. k -> States] : Cardinality(Range(l)) = k} :
              k \in 0 .. NumStates}

\* nfa.null_closure(l) for a list l of states
InitClosure ==
    /\ alphabet \in Alphabets
    /\ \E edges \in EdgeSets(alphabet) : transitions = EdgeDict(edges)
    /\ initial_state = 0
    /\ final_states = <<>>
    /\ Idle
    /\ \E l \in StateLists :
          /\ states = l
          /\ closure = l
          /\ unchecked = l
    /\ result = <<>>
    /\ previous = NoCall
    /\ pc = "null_closure"
    /\ return_pc = "again"

\* nfa.null_closure(r) for the list r the first call returned
ClosureAgain ==
    /\ pc = "again"
    /\ Call(result, "closed")
    /\ UNCHANGED <<nfa_vars, dfa_vars, loop_vars, lines>>

NextClosure ==
    \/ NullClosureLoop
    \/ NullClosureReturn
    \/ ClosureAgain

SpecClosure == InitClosure /\ [][NextClosure]_vars

\* ----------------------------------------- add_transition on its own
\* FiniteAutomaton(1, dict(), [], alphabet): an empty relation
InitAdd ==
    /\ alphabet \in Alphabets
    /\ transitions = EmptyDict
    /\ initial_state = 0
    /\ final_states = <<>>
    /\ Idle
    /\ states = <<>>
    /\ closure = <<>>
    /\ unchecked = <<>>
    /\ result = <<>>
    /\ previous = NoCall
    /\ pc = "add_transition"
    /\ return_pc = "add_transition"

\* the number of add_transition calls made so far: each call adds one
\* destination
CallsMade(trans) ==
    Cardinality({<<q, symbol, i>> \in
        (DOMAIN trans) \X Range(alphabet) \X (1 .. MaxCalls) :
            i <= Len(Get(trans[q], symbol, <<>>))})

\* automaton.add_transition(start, symbol, end), for any arguments
AddTransitionCall ==
    /\ pc = "add_transition"
    /\ CallsMade(dfa_transitions) < MaxCalls
    /\ \E from \in 1 .. MaxNames, end \in 1 .. MaxNames, symbol \in Range(alphabet) :
          dfa_transitions' = add_transition(dfa_transitions, from, symbol, end)
    /\ UNCHANGED <<nfa_vars, dfa_final_states, loop_vars, closure_vars, lines, pc,
                   return_pc>>

NextAdd == AddTransitionCall

SpecAdd == InitAdd /\ [][NextAdd]_vars

\* ------------------------------------------------- reference notions
\* The NFA's edges, read off its relation.
Dests(s, symbol) == Range(Get(Get(transitions, s, EmptyDict), symbol, <<>>))

\* The states reachable from S by zero or more epsilon edges: the least
\* set containing S and closed under the epsilon edges.
RECURSIVE EpsReach(_)
EpsReach(S) ==
    LET T == S \cup UNION {Dests(s, NULL) : s \in S}
    IN IF T = S THEN S ELSE EpsReach(T)

\* The states some NFA run on word w can end in.
RECURSIVE NfaRun(_)
NfaRun(w) ==
    IF w = <<>> THEN EpsReach({initial_state})
    ELSE EpsReach(UNION {Dests(s, w[Len(w)]) :
                            s \in NfaRun(SubSeq(w, 1, Len(w) - 1))})

NfaAccepts(w) == NfaRun(w) \cap Range(final_states) # {}

DfaDests(q, symbol) == Range(Get(Get(dfa_transitions, q, EmptyDict), symbol, <<>>))

\* The DFA states the run on w from state 1 can end in (none when a
\* transition is missing).
RECURSIVE DfaRun(_)
DfaRun(w) ==
    IF w = <<>> THEN {DfaInitialState}
    ELSE UNION {DfaDests(q, w[Len(w)]) : q \in DfaRun(SubSeq(w, 1, Len(w) - 1))}

DfaAccepts(w) == DfaRun(w) \cap Range(dfa_final_states) # {}

Words == UNION {[1 .. n -> Range(alphabet)] : n \in 0 .. MaxWord}

\* to_dfa has returned its DFA
Returned == pc \in {"str", "done"}

\* the DFA state names handed out so far
Names == {dfa_states[k] : k \in DOMAIN dfa_states}

\* ------------------------------------------------------------- claims
\* C1: the DFA returned by to_dfa accepts a word over the alphabet (up to
\* MaxWord symbols) exactly when the NFA accepts it.
C1_LanguageEquivalence ==
    Returned => \A w \in Words : DfaAccepts(w) <=> NfaAccepts(w)

\* C1 witness: a finished conversion of an NFA with an epsilon edge that
\* matters, where a two-symbol word is accepted and a one-symbol word is not.
C1_Witness ==
    /\ pc = "done"
    /\ \E s \in States : Dests(s, NULL) \ {s} # {}
    /\ \E w \in Words : Len(w) = 2 /\ NfaAccepts(w) /\ DfaAccepts(w)
    /\ \E w \in Words : Len(w) = 1 /\ ~NfaAccepts(w) /\ ~DfaAccepts(w)

\* C2: at every point of the construction and in the finished DFA, every
\* (DFA state, symbol) entry of the DFA relation has at most one destination.
C2_Deterministic ==
    \A q \in DOMAIN dfa_transitions :
        \A symbol \in DOMAIN dfa_transitions[q] :
            Len(dfa_transitions[q][symbol]) <= 1

\* C2 witness: a finished DFA in which a state that was found twice (it has
\* two incoming transitions) has an outgoing transition.
C2_Witness ==
    /\ pc = "done"
    /\ \E q \in DOMAIN dfa_transitions :
          /\ DOMAIN dfa_transitions[q] # {}
          /\ Cardinality({<<p, symbol>> \in (DOMAIN dfa_transitions) \X Range(alphabet) :
                             q \in DfaDests(p, symbol)}) >= 2

\* C3: after to_dfa, a DFA state name is in dfa.final_states iff its subset
\* shares a state with the NFA's final states; state 1 is final iff the
\* epsilon closure of the NFA's initial state holds an NFA final state.
C3_FinalStates ==
    Returned =>
        /\ \A k \in DOMAIN dfa_states :
              dfa_states[k] \in Range(dfa_final_states)
                  <=> Range(k) \cap Range(final_states) # {}
        /\ Range(dfa_final_states) \subseteq Names
        /\ DfaInitialState \in Range(dfa_final_states)
              <=> EpsReach({initial_state}) \cap Range(final_states) # {}

\* C3 witness: a finished DFA with a final and a non-final state, state 1
\* final only through an epsilon edge.
C3_Witness ==
    /\ pc = "done"
    /\ DfaInitialState \in Range(dfa_final_states)
    /\ initial_state \notin Range(final_states)
    /\ Names \ Range(dfa_final_states) # {}


\* a null_closure call made on its own has returned
ClosureReturned == pc \in {"again", "closed"}

StrictlyIncreasing(l) == \A i, j \in DOMAIN l : i < j => l[i] < l[j]

\* C4: the states null_closure(S) returns are exactly the states reachable
\* from a state of S by zero or more epsilon edges; S is among them.
C4_ClosureIsEpsilonReachability ==
    ClosureReturned =>
        /\ Range(result) = EpsReach(Range(states))
        /\ Range(states) \subseteq Range(result)

\* C4 witness: a call that found a state two epsilon edges away from its
\* one-state argument.
C4_Witness ==
    /\ pc = "again"
    /\ Len(states) = 1
    /\ \E s \in Range(states) : \E t \in Dests(s, NULL) \ Range(states) :
          Dests(t, NULL) \ (Range(states) \cup {t}) # {}

\* C5: null_closure returns a strictly increasing sequence, so two calls
\* whose arguments differ but whose closures are the same set return the
\* same sequence.
C5_CanonicalSequence ==
    /\ ClosureReturned => StrictlyIncreasing(result)
    /\ (pc = "closed" /\ Range(result) = Range(previous.result))
          => result = previous.result

\* C5 witness: the second of two calls has returned; the first call found
\* its states in an order that is not the sorted one, from an argument that
\* is another set than the second call's.
C5_Witness ==
    /\ pc = "closed"
    /\ previous.closure # previous.result
    /\ previous.states # states
    /\ Range(previous.states) # Range(states)
    /\ result = previous.result

\* C6: null_closure(null_closure(S)) and null_closure(S) hold the same states.
C6_ClosureIdempotent ==
    pc = "closed" => Range(result) = Range(previous.result)

\* C6 witness: the closure of a closure has been computed, the first closure
\* having grown along a chain of two epsilon edges.
C6_Witness ==
    /\ pc = "closed"
    /\ Len(previous.states) = 1
    /\ \E s, t, u \in Range(result) :
          /\ s # t /\ t # u /\ s # u
          /\ t \in Dests(s, NULL)
          /\ u \in Dests(t, NULL)
          /\ u \notin Dests(s, NULL)


\* C7: to_dfa terminates: the worklist of unmarked subsets becomes empty and
\* the program ends, and every null_closure call made on the way empties its
\* own worklist.
C7_Terminates ==
    /\ <>(pc = "done" /\ unmarked = <<>>)
    /\ (pc = "null_closure") ~> (pc = "null_closure" /\ unchecked = <<>>)

\* C7 witness: a finished conversion of an NFA with an epsilon cycle, in
\* which two subsets were marked.
C7_Witness ==
    /\ pc = "done"
    /\ unmarked = <<>>
    /\ Len(marks) >= 2
    /\ \E s, t \in States : s # t /\ t \in Dests(s, NULL) /\ s \in Dests(t, NULL)


\* the DFA states reachable from state 1 along DFA transitions
RECURSIVE DfaReach(_)
DfaReach(Q) ==
    LET R == Q \cup UNION {DfaDests(q, symbol) : <<q, symbol>> \in Q \X Range(alphabet)}
    IN IF R = Q THEN Q ELSE DfaReach(R)

\* C8: in the finished DFA every DFA state other than state 1 is reachable
\* from state 1 along DFA transitions.
C8_Reachable ==
    Returned => Names \ {DfaInitialState} \subseteq DfaReach({DfaInitialState})

\* C8 witness: a finished DFA with a state that is no destination of state
\* 1 itself, only of another state.
C8_Witness ==
    /\ pc = "done"
    /\ \E q \in Names \ {DfaInitialState} :
          \A symbol \in Range(alphabet) : q \notin DfaDests(DfaInitialState, symbol)

\* C9: the table __str__ renders has one row per discovered DFA state, for
\* the state names 1 .. number of discovered subsets in ascending order.
C9_OneRowPerState ==
    pc = "done" =>
        /\ Len(lines) - 3 = Cardinality(DOMAIN dfa_states)
        /\ \A n \in 1 .. Len(lines) - 3 : lines[n + 3][1] = n

\* C10: at every point of the construction two recorded subsets that are
\* equal as sets have the same DFA state name, and a closure that equals a
\* recorded subset as a set is that recorded key.
C10_OneNamePerSet ==
    /\ \A k1, k2 \in DOMAIN dfa_states :
          Range(k1) = Range(k2) => dfa_states[k1] = dfa_states[k2]
    /\ pc = "new_state" =>
          \A k \in DOMAIN dfa_states : Range(k) = Range(result) => k = result

\* C10 witness: a closure found in an order that is not the sorted one
\* resolves to a subset recorded earlier, from another DFA state.
C10_Witness ==
    /\ pc = "new_state"
    /\ result \in DOMAIN dfa_states
    /\ closure # result
    /\ dfa_states[result] # initial_state_name


\* the states the NFA is made of: its initial state, its final states and
\* the ends of its edges
NfaStates ==
    {initial_state} \cup Range(final_states) \cup DOMAIN transitions
        \cup UNION {Dests(s, symbol) : <<s, symbol>> \in States \X (Range(alphabet) \cup {NULL})}

\* C11: at every point of the construction the number of discovered DFA
\* states is at most 2^(number of NFA states).
C11_AtMostPowerSet ==
    /\ Cardinality(DOMAIN dfa_states) <= 2 ^ Cardinality(NfaStates)
    /\ Cardinality(DOMAIN dfa_states) <= 2 ^ NumStates

\* C11 witness: an NFA of two states whose three non-empty subsets have all
\* been discovered.
C11_Witness ==
    /\ Cardinality(NfaStates) = 2
    /\ Cardinality(DOMAIN dfa_states) = 3


\* C12: with an empty alphabet to_dfa yields exactly one discovered state,
\* named 1, whose subset is the epsilon closure of the NFA's initial state,
\* and no transition; state 1 is final iff that closure holds an NFA final
\* state.
C12_EmptyAlphabet ==
    (Returned /\ alphabet = <<>>) =>
        /\ Cardinality(DOMAIN dfa_states) = 1
        /\ \A k \in DOMAIN dfa_states :
              /\ dfa_states[k] = DfaInitialState
              /\ Range(k) = EpsReach({initial_state})
        /\ DOMAIN dfa_transitions = {}
        /\ Range(dfa_final_states) \subseteq {DfaInitialState}
        /\ DfaInitialState \in Range(dfa_final_states)
              <=> EpsReach({initial_state}) \cap Range(final_states) # {}

\* C12 witness: a finished conversion over the empty alphabet in which state
\* 1 is final through a chain of two epsilon edges only.
C12_Witness ==
    /\ pc = "done"
    /\ alphabet = <<>>
    /\ dfa_final_states = <<DfaInitialState>>
    /\ Range(final_states) \cap ({initial_state} \cup Dests(initial_state, NULL)) = {}


\* C13: move(states, symbol) returns exactly the union, over the states it
\* is given, of the destinations recorded for (state, symbol); a state that
\* is no key of the relation and a symbol without an entry add nothing, and
\* the call leaves the relation as it was.
C13_MoveIsUnionOfRecorded ==
    [][/\ ForSymbol =>
            /\ Range(moved') =
                  UNION {Dests(s, alphabet[symbol_index]) : s \in Range(start)}
            /\ Len(moved') = Cardinality(Range(moved'))
            /\ transitions' = transitions
       /\ NullClosureLoop => transitions' = transitions]_vars

\* C13 witness: move has just returned nothing for a subset that holds a
\* state that is no key of the relation and a state that is a key without
\* an entry for the symbol.
C13_Witness ==
    /\ pc = "for"
    /\ symbol_index > 1
    /\ moved = <<>>
    /\ \E s \in Range(start) : s \notin DOMAIN transitions
    /\ \E s \in Range(start) :
          /\ s \in DOMAIN transitions
          /\ alphabet[symbol_index - 1] \notin DOMAIN transitions[s]


\* the destinations the DFA relation records for (q, symbol) in this state
\* and in the next one
DfaList(q, symbol) == Get(Get(dfa_transitions, q, EmptyDict), symbol, <<>>)
DfaListNext(q, symbol) == Get(Get(dfa_transitions', q, EmptyDict), symbol, <<>>)

\* C14: after any sequence of add_transition calls from an empty relation
\* every source and every destination is a key of the relation, and a call
\* add_transition(start, symbol, end) puts end at the end of the
\* destinations of (start, symbol), makes start and end keys and changes no
\* other (state, symbol) entry.
C14_AddTransition ==
    /\ [](\A q \in DOMAIN dfa_transitions :
            \A symbol \in DOMAIN dfa_transitions[q] :
                Range(dfa_transitions[q][symbol]) \subseteq DOMAIN dfa_transitions)
    /\ [][dfa_transitions' # dfa_transitions =>
            \E from \in DOMAIN dfa_transitions', end \in DOMAIN dfa_transitions',
               symbol \in Range(alphabet) :
                /\ DfaListNext(from, symbol) = Append(DfaList(from, symbol), end)
                /\ DOMAIN dfa_transitions' = DOMAIN dfa_transitions \cup {from, end}
                /\ \A q \in DOMAIN dfa_transitions', other \in Range(alphabet) :
                      <<q, other>> # <<from, symbol>>
                          => DfaListNext(q, other) = DfaList(q, other)]_vars

\* C14 witness: the same transition was added twice and its destination is
\* a key without transitions of its own.
C14_Witness ==
    /\ pc = "add_transition"
    /\ \E q \in DOMAIN dfa_transitions : \E symbol \in DOMAIN dfa_transitions[q] :
          /\ Len(dfa_transitions[q][symbol]) = 2
          /\ \E d \in Range(dfa_transitions[q][symbol]) :
                d # q /\ DOMAIN dfa_transitions[d] = {}


\* the NFA states move reaches from the states of subset k on symbol
MoveSet(k, symbol) == UNION {Dests(s, symbol) : s \in Range(k)}

\* C15: in the finished DFA, for every DFA state S and alphabet symbol a:
\* when move(S, a) is empty, (S, a) has no transition; otherwise the
\* destinations of (S, a) are exactly the one DFA state that stands for
\* null_closure(move(S, a)).
C15_TransitionsAreClosedMoves ==
    Returned =>
        \A k \in DOMAIN dfa_states, symbol \in Range(alphabet) :
            IF MoveSet(k, symbol) = {}
            THEN /\ DfaList(dfa_states[k], symbol) = <<>>
                 /\ dfa_states[k] \in DOMAIN dfa_transitions
                       => symbol \notin DOMAIN dfa_transitions[dfa_states[k]]
            ELSE \E t \in DOMAIN dfa_states :
                    /\ Range(t) = EpsReach(MoveSet(k, symbol))
                    /\ DfaList(dfa_states[k], symbol) = <<dfa_states[t]>>

\* C15 witness: a finished DFA in which one state has no move on some
\* symbol and another pair leads to a different state whose subset is
\* larger than the move, by epsilon edges.
C15_Witness ==
    /\ Returned
    /\ \E k \in DOMAIN dfa_states, symbol \in Range(alphabet) :
          /\ MoveSet(k, symbol) = {}
          /\ dfa_states[k] \in DOMAIN dfa_transitions
    /\ \E k \in DOMAIN dfa_states, symbol \in Range(alphabet) :
          /\ MoveSet(k, symbol) # {}
          /\ EpsReach(MoveSet(k, symbol)) # MoveSet(k, symbol)
          /\ DfaList(dfa_states[k], symbol) # <<dfa_states[k]>>


\* how often x occurs in the list l
Occurrences(l, x) == Cardinality({i \in 1 .. Len(l) : l[i] = x})

\* C16: every discovered subset is put on the worklist exactly once, at
\* the moment it is discovered: it is either on the worklist once and not
\* yet marked, or off the worklist and marked once; the worklist grows only
\* by a subset that was not recorded before and is recorded now, so it
\* never holds the same subset twice.
C16_EnqueuedOnce ==
    /\ [](/\ Range(unmarked) \subseteq DOMAIN dfa_states
           /\ \A k \in DOMAIN dfa_states :
                 Occurrences(unmarked, k) + Occurrences(marks, dfa_states[k]) = 1)
    /\ [][Len(unmarked') > Len(unmarked) =>
            \E k \in DOMAIN dfa_states' :
                /\ unmarked' = Append(unmarked, k)
                /\ k \notin DOMAIN dfa_states]_vars

\* C16 witness: a transition to an already marked subset has just been
\* added while other subsets wait on the worklist.
C16_Witness ==
    /\ pc = "for"
    /\ symbol_index > 1
    /\ moved # <<>>
    /\ unmarked # <<>>
    /\ \E n \in Range(marks) :
          DfaList(initial_state_name, alphabet[symbol_index - 1]) = <<n>>


\* C17: the DFA state ids are exactly 1 .. n for n discovered subsets, they
\* are handed out in discovery order (a newly recorded subset gets the
\* number of subsets known so far plus one and no id ever changes), and the
\* epsilon-closure of the NFA's initial state has id 1.
C17_IdsInDiscoveryOrder ==
    /\ [](/\ Names = 1 .. Cardinality(DOMAIN dfa_states)
           /\ dfa_states # EmptyDict =>
                 \E k \in DOMAIN dfa_states :
                     /\ dfa_states[k] = DfaInitialState
                     /\ Range(k) = EpsReach({initial_state}))
    /\ [][dfa_states' # dfa_states =>
            \E k \in DOMAIN dfa_states' :
                /\ k \notin DOMAIN dfa_states
                /\ DOMAIN dfa_states' = DOMAIN dfa_states \cup {k}
                /\ dfa_states'[k] = Cardinality(DOMAIN dfa_states) + 1
                /\ \A j \in DOMAIN dfa_states : dfa_states'[j] = dfa_states[j]]_vars

\* C17 witness: a finished construction with at least three subsets in
\* which a known subset was reached again.
C17_Witness ==
    /\ Returned
    /\ Cardinality(DOMAIN dfa_states) >= 3
    /\ \E q \in DOMAIN dfa_transitions, symbol \in Range(alphabet) :
          \E n \in Range(DfaList(q, symbol)) : n <= q


\* C18: no step of to_dfa, of the move and null_closure calls inside it or
\* of the printing after it changes the NFA: initial state, final states,
\* alphabet and transition relation stay what they were, also when move
\* looks up a state that is no key of the relation.
C18_NfaUnchanged ==
    [][/\ initial_state' = initial_state
       /\ final_states' = final_states
       /\ alphabet' = alphabet
       /\ transitions' = transitions]_vars

\* C18 witness: a finished run in which a discovered subset holds a state
\* that is no key of the NFA relation, so move has looked it up for every
\* alphabet symbol.
C18_Witness ==
    /\ pc = "done"
    /\ alphabet # <<>>
    /\ \E k \in DOMAIN dfa_states : \E s \in Range(k) : s \notin DOMAIN transitions


\* C19: the "Mark n" events come in strictly ascending id order 1, 2, 3,
\* ...: the i-th mark is id i, no id is marked before it has been assigned
\* to a subset, and when to_dfa returns every discovered subset has been
\* marked exactly once.
C19_MarksAscend ==
    /\ \A i \in 1 .. Len(marks) : marks[i] = i
    /\ Range(marks) \subseteq Names
    /\ Returned => Range(marks) = Names

\* C19 witness: the second subset has just been taken from the front of a
\* worklist that held a later subset behind it.
C19_Witness ==
    /\ pc = "for"
    /\ symbol_index = 1
    /\ Len(marks) >= 2
    /\ unmarked # <<>>


\* C20: at every point of the construction every subset recorded as a DFA
\* state and every subset on the worklist is non-empty, is closed under the
\* NFA's epsilon transitions and has an id in dfa_states; the empty subset
\* is never a DFA state.
C20_SubsetsClosedAndNamed ==
    /\ \A k \in DOMAIN dfa_states \cup Range(unmarked) :
          /\ k # <<>>
          /\ EpsReach(Range(k)) = Range(k)
          /\ k \in DOMAIN dfa_states
    /\ <<>> \notin DOMAIN dfa_states

\* C20 witness: a symbol without any move has just been skipped while a
\* subset of several states, put together by an epsilon edge, waits on the
\* worklist.
C20_Witness ==
    /\ pc = "for"
    /\ symbol_index > 1
    /\ moved = <<>>
    /\ \E k \in Range(unmarked) :
          /\ Len(k) >= 2
          /\ \E s \in Range(k) : Dests(s, NULL) # {}

====
